---- MODULE Spec2Model ----
(***************************************************************************)
(* kb/actions/template.py: the template store (new, add, update_template,  *)
(* delete, get_template) and the bulk template applier (apply_on_set).     *)
(*                                                                         *)
(* Text is a sequence of one-character strings, so that split and          *)
(* substring matching are computed.  An optional value is None (the empty  *)
(* tuple) or Some(v) (the one-element tuple <<v>>).                        *)
(***************************************************************************)
EXTENDS Integers, Sequences, FiniteSets, TLC

VARIABLES
    \* ---- artifact repository and the apply_on_set callers
    repo,          \* the artifacts table: id -> Artifact record
    pc,            \* caller -> "idle" | "loop" | "done" | "failed"
    tmpl,          \* caller -> args["template"]
    rows,          \* caller -> the snapshot returned by get_artifacts_by_filter
    idx,           \* caller -> number of loop iterations completed
    rows_updated,  \* caller -> the local counter rows_updated
    ret,           \* caller -> None, or Some(count) once apply_on_set returned
    issued,        \* caller -> the update_artifact_by_id calls issued (history)
    snap,          \* caller -> the repository as it was at the query (history)
    unfiltered,    \* caller -> TRUE iff every predicate field of the call was unset
    foreign,       \* caller -> TRUE iff someone else wrote the repository since the query
    lastUpdater,   \* id -> the caller whose update to id was issued last (history)
    lastEdit,      \* id -> None, or Some(title) last set by the other writer (history)
    writes,        \* number of writes of the other writer so far
    \* ---- template store and its callers
    store,         \* the templates directory: name -> bytes
    spc,           \* caller -> position inside the running store operation
    sarg,          \* caller -> [name, content] of the running store operation
    sres,          \* caller -> [op, outcome, code, data] of the last finished operation
    lastUpd,       \* None, or Some([name, content]) of the latest update_template call
                   \* on an existing name, while nothing wrote that name since (history)
    \* ---- tag-filter normalisation on its own
    tagsArg,       \* args["tags"]
    tags_list,     \* the value handed to the query as tags=
    tpc            \* "off" | "start" | "normalized"

applyVars == <<repo, pc, tmpl, rows, idx, rows_updated, ret, issued, snap,
               unfiltered, foreign, lastUpdater, lastEdit, writes>>
storeVars == <<store, spc, sarg, sres, lastUpd>>
tagVars   == <<tagsArg, tags_list, tpc>>
vars      == <<applyVars, storeVars, tagVars>>

(***************************************************************************)
(* Bounds                                                                  *)
(***************************************************************************)
NumArtifacts == 2    \* artifacts in the repository at the start
MaxWrites    == 1    \* writes of the other writer (edit of a title, removal)
MaxTagsLen   == 4    \* length of the tags argument in the normalisation runs

None == << >>
Some(v) == <<v>>
IsNone(o) == Len(o) = 0
Val(o) == o[1]

Callers == {"p1", "p2"}
ArtIds == 1..NumArtifacts
Templates == {"T1", "T2"}

(***************************************************************************)
(* Tag-filter normalisation (apply_on_set, lines 55-57)                    *)
(***************************************************************************)
RECURSIVE SplitAcc(_, _, _)
SplitAcc(s, cur, acc) ==
    IF s = << >> THEN Append(acc, cur)
    ELSE IF Head(s) = ";" THEN SplitAcc(Tail(s), << >>, Append(acc, cur))
    ELSE SplitAcc(Tail(s), Append(cur, Head(s)), acc)

\* str.split(';'): the pieces between separators, empty pieces included
Split(s) == SplitAcc(s, << >>, << >>)

\* mutant: the emptiness test dropped, only None means "no tags"
NormalizeTagsNoEmptyTest(tags) ==
    IF ~IsNone(tags) THEN Some(Split(Val(tags))) ELSE None

\* tags_list = None; if args["tags"] and args["tags"] != "": split(';')
NormalizeTags(tags) ==
    IF ~IsNone(tags) /\ Val(tags) # << >> THEN Some(Split(Val(tags))) ELSE None

(***************************************************************************)
(* Artifact repository: db.get_artifacts_by_filter, db.update_artifact_by_id*)
(***************************************************************************)
RECURSIVE IsPrefix(_, _)
IsPrefix(p, s) ==
    IF p = << >> THEN TRUE
    ELSE IF s = << >> THEN FALSE
    ELSE Head(p) = Head(s) /\ IsPrefix(Tail(p), Tail(s))

RECURSIVE IsSubstr(_, _)
IsSubstr(p, s) ==
    IF IsPrefix(p, s) THEN TRUE
    ELSE IF s = << >> THEN FALSE
    ELSE IsSubstr(p, Tail(s))

Range(s) == {s[k] : k \in 1..Len(s)}

\* one text predicate: unset imposes nothing; strict is equality, extended is substring
FieldMatches(want, have, strict) ==
    \/ IsNone(want)
    \/ IF strict THEN have = Val(want) ELSE IsSubstr(Val(want), have)

\* the tag predicate: strict is tag-set equality, extended is a loose match of some token
TagsMatch(want, have, strict) ==
    \/ IsNone(want)
    \/ IF strict THEN have = Range(Val(want))
       ELSE \E tok \in Range(Val(want)) : \E t \in have : IsSubstr(tok, t)

Matches(a, f) ==
    /\ FieldMatches(f.title, a.title, f.is_strict)
    /\ FieldMatches(f.category, a.category, f.is_strict)
    /\ FieldMatches(f.author, a.author, f.is_strict)
    /\ FieldMatches(f.status, a.status, f.is_strict)
    /\ TagsMatch(f.tags, a.tags, f.is_strict)

RECURSIVE RowsFrom(_, _, _)
RowsFrom(r, f, id) ==
    IF id > NumArtifacts THEN << >>
    ELSE IF id \in DOMAIN r /\ Matches(r[id], f)
         THEN <<r[id]>> \o RowsFrom(r, f, id + 1)
         ELSE RowsFrom(r, f, id + 1)

\* the snapshot of the matching artifacts, in id order
get_artifacts_by_filter(r, f) == RowsFrom(r, f, 1)

\* the identity-keyed update; an artifact removed meanwhile makes it a no-op
update_artifact_by_id(r, id, artifact) ==
    IF id \in DOMAIN r THEN [r EXCEPT ![id] = artifact] ELSE r

(***************************************************************************)
(* apply_on_set                                                            *)
(***************************************************************************)
\* mutant: the record keeps the template that was read
UpdatedArtifactKeepsTemplate(artifact, template) ==
    [id |-> artifact.id, title |-> artifact.title, category |-> artifact.category,
     tags |-> artifact.tags, author |-> artifact.author, status |-> artifact.status,
     template |-> artifact.template]

\* mutant: the record loses the tags
UpdatedArtifactDropsTags(artifact, template) ==
    [id |-> artifact.id, title |-> artifact.title, category |-> artifact.category,
     tags |-> {}, author |-> artifact.author, status |-> artifact.status,
     template |-> template]

\* mutant: the record loses the title
UpdatedArtifactDropsTitle(artifact, template) ==
    [id |-> artifact.id, title |-> << >>, category |-> artifact.category,
     tags |-> artifact.tags, author |-> artifact.author, status |-> artifact.status,
     template |-> template]

\* updated_artifact = Artifact(id=artifact.id, ..., template=args["template"])
UpdatedArtifact(artifact, template) ==
    [id |-> artifact.id, title |-> artifact.title, category |-> artifact.category,
     tags |-> artifact.tags, author |-> artifact.author, status |-> artifact.status,
     template |-> template]

\* mutant: the counter is not advanced
NextCountStuck(n) == n

\* rows_updated = rows_updated + 1
NextCount(n) == n + 1

Txt(c) == <<c>>

\* the artifacts the repository may hold at the start
ArtifactShapes ==
    { [shape |-> 1, title |-> <<"a">>, category |-> Txt("x"), tags |-> {},
       author |-> Txt("u"), status |-> Txt("d"), template |-> ""],
      [shape |-> 2, title |-> <<"a", "b">>, category |-> Txt("x"), tags |-> {<<"a">>},
       author |-> Txt("u"), status |-> Txt("d"), template |-> "T1"],
      [shape |-> 3, title |-> <<"a">>, category |-> Txt("y"), tags |-> {<<"a">>, <<"b">>},
       author |-> Txt("v"), status |-> Txt("e"), template |-> ""] }

WithId(shape, id) ==
    [id |-> id, title |-> shape.title, category |-> shape.category,
     tags |-> shape.tags, author |-> shape.author, status |-> shape.status,
     template |-> shape.template]

\* the filters apply_on_set is called with: [title, category, author, status,
\* tags, extended_match]
NoFilter ==
    [title |-> None, category |-> None, author |-> None, status |-> None,
     tags |-> None, extended_match |-> FALSE]

Filters ==
    { NoFilter,
      [NoFilter EXCEPT !.tags = Some(<< >>), !.extended_match = TRUE],
      [NoFilter EXCEPT !.title = Some(<<"a">>)],
      [NoFilter EXCEPT !.title = Some(<<"b">>), !.extended_match = TRUE],
      [NoFilter EXCEPT !.category = Some(Txt("x")), !.author = Some(Txt("u"))],
      [NoFilter EXCEPT !.status = Some(Txt("e"))],
      [NoFilter EXCEPT !.tags = Some(<<"a">>)],
      [NoFilter EXCEPT !.tags = Some(<<"a", ";">>)],
      [NoFilter EXCEPT !.tags = Some(<<"b", ";", "a">>), !.extended_match = TRUE] }

NewTitles    == {<<"b">>}

IsUnset(args) ==
    /\ IsNone(args.title) /\ IsNone(args.category)
    /\ IsNone(args.author) /\ IsNone(args.status)
    /\ (IsNone(args.tags) \/ Val(args.tags) = << >>)

\* every caller but p that has taken its snapshot sees a foreign write
Disturb(others) ==
    [q \in Callers |-> IF q \in others /\ pc[q] # "idle" THEN TRUE ELSE foreign[q]]

\* the earlier of two interchangeable callers is named p1
MayStart(p) == p = "p1" \/ pc["p1"] # "idle"

\* lines 55-69: normalise the tags, query the snapshot, rows_updated = 0;
\* with an empty snapshot the loop is skipped and line 81 returns 0
ApplyStart(p, args, template) ==
    /\ pc[p] = "idle"
    /\ MayStart(p)
    /\ LET f == [title |-> args.title, category |-> args.category,
                 tags |-> NormalizeTags(args.tags), status |-> args.status,
                 author |-> args.author, is_strict |-> ~args.extended_match]
           found == get_artifacts_by_filter(repo, f)
       IN /\ rows' = [rows EXCEPT ![p] = found]
          /\ pc' = [pc EXCEPT ![p] = IF found = << >> THEN "done" ELSE "loop"]
          /\ ret' = [ret EXCEPT ![p] = IF found = << >> THEN Some(0) ELSE None]
    /\ tmpl' = [tmpl EXCEPT ![p] = template]
    /\ rows_updated' = [rows_updated EXCEPT ![p] = 0]
    /\ idx' = [idx EXCEPT ![p] = 0]
    /\ snap' = [snap EXCEPT ![p] = repo]
    /\ unfiltered' = [unfiltered EXCEPT ![p] = IsUnset(args)]
    /\ foreign' = [foreign EXCEPT ![p] = FALSE]
    /\ UNCHANGED <<repo, issued, lastUpdater, lastEdit, writes>>

\* lines 70-81, one iteration whose update succeeds; after the last one,
\* return(rows_updated)
ApplyUpdate(p) ==
    /\ pc[p] = "loop"
    /\ idx[p] < Len(rows[p])
    /\ LET artifact == rows[p][idx[p] + 1]
           updated_artifact == UpdatedArtifact(artifact, tmpl[p])
           count == NextCount(rows_updated[p])
           last == idx[p] + 1 = Len(rows[p])
       IN /\ rows_updated' = [rows_updated EXCEPT ![p] = count]
          /\ repo' = update_artifact_by_id(repo, artifact.id, updated_artifact)
          /\ issued' = [issued EXCEPT ![p] =
                          Append(@, [id |-> artifact.id, rec |-> updated_artifact])]
          /\ lastUpdater' = [lastUpdater EXCEPT ![artifact.id] = p]
          /\ pc' = [pc EXCEPT ![p] = IF last THEN "done" ELSE "loop"]
          /\ ret' = [ret EXCEPT ![p] = IF last THEN Some(count) ELSE None]
    /\ idx' = [idx EXCEPT ![p] = idx[p] + 1]
    /\ foreign' = Disturb(Callers \ {p})
    /\ UNCHANGED <<tmpl, rows, snap, unfiltered, lastEdit, writes>>

\* lines 70-80, one iteration whose update raises: the exception leaves apply_on_set
ApplyUpdateFails(p) ==
    /\ pc[p] = "loop"
    /\ idx[p] < Len(rows[p])
    /\ rows_updated' = [rows_updated EXCEPT ![p] = NextCount(rows_updated[p])]
    /\ pc' = [pc EXCEPT ![p] = "failed"]
    /\ UNCHANGED <<repo, tmpl, rows, idx, ret, issued, snap, unfiltered, foreign,
                   lastUpdater, lastEdit, writes>>

\* another writer of the repository changes the title of an artifact
EditTitle(id, title) ==
    /\ writes < MaxWrites
    /\ id \in DOMAIN repo
    /\ repo[id].title # title
    /\ repo' = [repo EXCEPT ![id].title = title]
    /\ lastEdit' = [lastEdit EXCEPT ![id] = Some(title)]
    /\ writes' = writes + 1
    /\ foreign' = Disturb(Callers)
    /\ UNCHANGED <<pc, tmpl, rows, idx, rows_updated, ret, issued, snap, unfiltered,
                   lastUpdater>>

\* another writer of the repository removes an artifact
RemoveArtifact(id) ==
    /\ writes < MaxWrites
    /\ id \in DOMAIN repo
    /\ repo' = [k \in DOMAIN repo \ {id} |-> repo[k]]
    /\ writes' = writes + 1
    /\ foreign' = Disturb(Callers)
    /\ UNCHANGED <<pc, tmpl, rows, idx, rows_updated, ret, issued, snap, unfiltered,
                   lastUpdater, lastEdit>>

\* the artifact the repository holds under id at the start
InitialArtifact(id) ==
    WithId(CHOOSE sh \in ArtifactShapes : sh.shape = ((id - 1) % 3) + 1, id)

InitStoreIdle ==
    /\ store = << >>
    /\ spc = << >>
    /\ sarg = << >>
    /\ sres = << >>
    /\ lastUpd = << >>

InitTagsIdle ==
    /\ tagsArg = None
    /\ tags_list = None
    /\ tpc = "off"

InitApplyIdle ==
    /\ repo = << >>
    /\ pc = << >>
    /\ tmpl = << >>
    /\ rows = << >>
    /\ idx = << >>
    /\ rows_updated = << >>
    /\ ret = << >>
    /\ issued = << >>
    /\ snap = << >>
    /\ unfiltered = << >>
    /\ foreign = << >>
    /\ lastUpdater = << >>
    /\ lastEdit = << >>
    /\ writes = 0

InitApply ==
    /\ repo = [id \in ArtIds |-> InitialArtifact(id)]
    /\ pc = [p \in Callers |-> "idle"]
    /\ tmpl = [p \in Callers |-> ""]
    /\ rows = [p \in Callers |-> << >>]
    /\ idx = [p \in Callers |-> 0]
    /\ rows_updated = [p \in Callers |-> 0]
    /\ ret = [p \in Callers |-> None]
    /\ issued = [p \in Callers |-> << >>]
    /\ snap = [p \in Callers |-> << >>]
    /\ unfiltered = [p \in Callers |-> FALSE]
    /\ foreign = [p \in Callers |-> FALSE]
    /\ lastUpdater = [id \in ArtIds |-> "none"]
    /\ lastEdit = [id \in ArtIds |-> None]
    /\ writes = 0
    /\ InitStoreIdle
    /\ InitTagsIdle

NextApply ==
    \/ \E p \in Callers : \E f \in Filters : \E t \in Templates : ApplyStart(p, f, t) /\ UNCHANGED <<storeVars, tagVars>>
    \/ \E p \in Callers : ApplyUpdate(p) /\ UNCHANGED <<storeVars, tagVars>>
    \/ \E p \in Callers : ApplyUpdateFails(p) /\ UNCHANGED <<storeVars, tagVars>>
    \/ \E id \in ArtIds : \E t \in NewTitles : EditTitle(id, t) /\ UNCHANGED <<storeVars, tagVars>>
    \/ \E id \in ArtIds : RemoveArtifact(id) /\ UNCHANGED <<storeVars, tagVars>>

SpecApply == InitApply /\ [][NextApply]_vars

(***************************************************************************)
(* Template store: new, add, update_template, delete, get_template         *)
(***************************************************************************)
StoreCallers == {"c1", "c2"}
Names == {"n1", "n2"}

\* what a caller may upload, or save from the editor: opaque bytes
Contents == {<< >>, <<77>>, <<77, 97, 110, 255>>}

\* "# This is an example configuration template\n\n\n" + toml.dumps(DEFAULT_TEMPLATE),
\* kept as the bytes that tell it from every upload
DefaultSkeleton == <<35, 10>>

NotFoundSentinel == -404
SuccessSentinel == -200
PadSextet == 64

\* base64.b64encode: three bytes give four sextets; a short last group is padded.
\* A sextet stands for its letter of the base64 alphabet, PadSextet for '='.
RECURSIVE b64encode(_)
b64encode(bs) ==
    IF Len(bs) = 0 THEN << >>
    ELSE IF Len(bs) = 1 THEN
        <<bs[1] \div 4, (bs[1] % 4) * 16, PadSextet, PadSextet>>
    ELSE IF Len(bs) = 2 THEN
        <<bs[1] \div 4, (bs[1] % 4) * 16 + bs[2] \div 16, (bs[2] % 16) * 4, PadSextet>>
    ELSE
        <<bs[1] \div 4, (bs[1] % 4) * 16 + bs[2] \div 16,
          (bs[2] % 16) * 4 + bs[3] \div 64, bs[3] % 64>>
        \o b64encode(SubSeq(bs, 4, Len(bs)))

\* fs.is_file on a path under PATH_KB_TEMPLATES
is_file(name) == name \in DOMAIN store

\* the directory with the file name holding content (created or overwritten)
WriteFile(name, content) ==
    [n \in DOMAIN store \cup {name} |-> IF n = name THEN content ELSE store[n]]

\* fs.remove_file
remove_file(name) == [n \in DOMAIN store \ {name} |-> store[n]]

Result(op, outcome, code, data) ==
    [op |-> op, outcome |-> outcome, code |-> code, data |-> data]

NoArg == [name |-> "", content |-> << >>]

\* the operation ends: its outcome is what the caller sees
Finish(c, r) ==
    /\ spc' = [spc EXCEPT ![c] = "idle"]
    /\ sres' = [sres EXCEPT ![c] = r]
    /\ sarg' = [sarg EXCEPT ![c] = NoArg]

Goto(c, label, name, content) ==
    /\ spc' = [spc EXCEPT ![c] = label]
    /\ sarg' = [sarg EXCEPT ![c] = [name |-> name, content |-> content]]
    /\ sres' = [sres EXCEPT ![c] = Result("running", "none", None, None)]

\* a write to name ends the watch on an update_template call made for it
Forget(name) ==
    lastUpd' = IF ~IsNone(lastUpd) /\ Val(lastUpd).name = name THEN None ELSE lastUpd

\* new, lines 100-105: the existence test; sys.exit(1) on an existing name
New(c, name) ==
    /\ spc[c] = "idle"
    /\ IF is_file(name)
       THEN Finish(c, Result("new", "AlreadyExists", None, None))
       ELSE Goto(c, "new_write", name, << >>)
    /\ UNCHANGED <<store, lastUpd>>

\* new, lines 108-112: open(template_path, 'w') and the skeleton written
NewWrite(c) ==
    /\ spc[c] = "new_write"
    /\ store' = WriteFile(sarg[c].name, DefaultSkeleton)
    /\ Forget(sarg[c].name)
    /\ spc' = [spc EXCEPT ![c] = "new_edit"]
    /\ UNCHANGED <<sarg, sres>>

\* new, lines 114-116: the editor runs on the file and exits, having saved or not
NewEdit(c, saved) ==
    /\ spc[c] = "new_edit"
    /\ IF IsNone(saved)
       THEN UNCHANGED <<store, lastUpd>>
       ELSE /\ store' = WriteFile(sarg[c].name, Val(saved))
            /\ Forget(sarg[c].name)
    /\ Finish(c, Result("new", "Ok", None, None))

\* add, lines 134-139: the existence test; sys.exit(1) on an existing name
Add(c, name, content) ==
    /\ spc[c] = "idle"
    /\ IF is_file(name)
       THEN Finish(c, Result("add", "AlreadyExists", None, None))
       ELSE Goto(c, "add_save", name, content)
    /\ UNCHANGED <<store, lastUpd>>

\* add, lines 141-143: filecontent.save and sys.exit(0)
AddSave(c) ==
    /\ spc[c] = "add_save"
    /\ store' = WriteFile(sarg[c].name, sarg[c].content)
    /\ Forget(sarg[c].name)
    /\ Finish(c, Result("add", "Ok", None, None))

\* update_template, lines 160-161: Path(...) + "/" raises TypeError, a Path has
\* no operator +; the lines after it are never reached
UpdateTemplate(c, title, content) ==
    /\ spc[c] = "idle"
    /\ Finish(c, Result("update", "TypeError", None, None))
    /\ lastUpd' = IF is_file(title) THEN Some([name |-> title, content |-> content])
                  ELSE lastUpd
    /\ UNCHANGED store

\* mutant: the test of delete reversed
DeleteFindsAbsent(exists) == exists

\* delete, line 185: if not fs.is_file(template_name)
DeleteFinds(exists) == ~exists

\* delete, lines 184-186: the existence test; return(-404) on a missing name
Delete(c, name) ==
    /\ spc[c] = "idle"
    /\ IF DeleteFinds(is_file(name))
       THEN Finish(c, Result("delete", "NotFound", Some(NotFoundSentinel), None))
       ELSE Goto(c, "delete_remove", name, << >>)
    /\ UNCHANGED <<store, lastUpd>>

\* delete, lines 188-189: fs.remove_file and return(-200)
DeleteRemove(c) ==
    /\ spc[c] = "delete_remove"
    /\ store' = remove_file(sarg[c].name)
    /\ Forget(sarg[c].name)
    /\ Finish(c, Result("delete", "Ok", Some(SuccessSentinel), None))

\* get_template, lines 204-207: the existence test; return(-404) on a missing name
GetTemplate(c, name) ==
    /\ spc[c] = "idle"
    /\ IF ~is_file(name)
       THEN Finish(c, Result("get", "NotFound", Some(NotFoundSentinel), None))
       ELSE Goto(c, "get_read", name, << >>)
    /\ UNCHANGED <<store, lastUpd>>

\* get_template, lines 209-211: open, read, b64encode; open raises when the file
\* was removed after the test
GetRead(c) ==
    /\ spc[c] = "get_read"
    /\ IF is_file(sarg[c].name)
       THEN Finish(c, Result("get", "Ok", None, Some(b64encode(store[sarg[c].name]))))
       ELSE Finish(c, Result("get", "FileNotFoundError", None, None))
    /\ UNCHANGED <<store, lastUpd>>

InitStore ==
    /\ store = << >>
    /\ spc = [c \in StoreCallers |-> "idle"]
    /\ sarg = [c \in StoreCallers |-> NoArg]
    /\ sres = [c \in StoreCallers |-> Result("none", "none", None, None)]
    /\ lastUpd = None
    /\ InitApplyIdle
    /\ InitTagsIdle

NextStore ==
    \/ \E c \in StoreCallers : \E n \in Names : New(c, n) /\ UNCHANGED <<applyVars, tagVars>>
    \/ \E c \in StoreCallers : NewWrite(c) /\ UNCHANGED <<applyVars, tagVars>>
    \/ \E c \in StoreCallers : \E saved \in {None} \cup {Some(x) : x \in Contents} :
          NewEdit(c, saved) /\ UNCHANGED <<applyVars, tagVars>>
    \/ \E c \in StoreCallers : \E n \in Names : \E x \in Contents :
          Add(c, n, x) /\ UNCHANGED <<applyVars, tagVars>>
    \/ \E c \in StoreCallers : AddSave(c) /\ UNCHANGED <<applyVars, tagVars>>
    \/ \E c \in StoreCallers : \E n \in Names : \E x \in Contents :
          UpdateTemplate(c, n, x) /\ UNCHANGED <<applyVars, tagVars>>
    \/ \E c \in StoreCallers : \E n \in Names : Delete(c, n) /\ UNCHANGED <<applyVars, tagVars>>
    \/ \E c \in StoreCallers : DeleteRemove(c) /\ UNCHANGED <<applyVars, tagVars>>
    \/ \E c \in StoreCallers : \E n \in Names : GetTemplate(c, n) /\ UNCHANGED <<applyVars, tagVars>>
    \/ \E c \in StoreCallers : GetRead(c) /\ UNCHANGED <<applyVars, tagVars>>

SpecStore == InitStore /\ [][NextStore]_vars

(***************************************************************************)
(* Tag-filter normalisation on every tags argument up to MaxTagsLen         *)
(***************************************************************************)
TagChars == {"a", "b", ";"}

RECURSIVE SeqsUpTo(_, _)
SeqsUpTo(S, n) ==
    IF n = 0 THEN {<< >>}
    ELSE LET shorter == SeqsUpTo(S, n - 1)
         IN shorter \cup {Append(q, x) : q \in shorter, x \in S}

\* args["tags"]: absent, or a string
TagArgs == {None} \cup {Some(t) : t \in SeqsUpTo(TagChars, MaxTagsLen)}

\* lines 55-57, and tags=tags_list of the query on line 65
NormalizeStep ==
    /\ tpc = "start"
    /\ tags_list' = NormalizeTags(tagsArg)
    /\ tpc' = "normalized"
    /\ UNCHANGED tagsArg

InitTags ==
    /\ tagsArg \in TagArgs
    /\ tags_list = None
    /\ tpc = "start"
    /\ InitApplyIdle
    /\ InitStoreIdle

NextTags == NormalizeStep /\ UNCHANGED <<applyVars, storeVars>>

SpecTags == InitTags /\ [][NextTags]_vars

(***************************************************************************)
(* Claims about apply_on_set, checked under SpecApply                      *)
(***************************************************************************)
Done(p) == pc[p] = "done"

RowIds(p) == [k \in 1..Len(rows[p]) |-> rows[p][k].id]
IssuedIds(p) == [k \in 1..Len(issued[p]) |-> issued[p][k].id]
Matched(p) == Range(RowIds(p))
Updated(p) == Range(IssuedIds(p))

\* the record the spec asks for: the values read, with the target template
Replacement(artifact, p) == [artifact EXCEPT !.template = tmpl[p]]

\* C1: when apply_on_set has returned, the count returned is the number of
\* update_artifact_by_id calls it issued, and those calls are one per snapshot
\* row, in snapshot order (none skipped, none repeated).
C1_CountIsUpdatesIssued ==
    \A p \in Callers :
        Done(p) =>
            /\ ret[p] = Some(Len(issued[p]))
            /\ Len(issued[p]) = Len(rows[p])
            /\ IssuedIds(p) = RowIds(p)

C1_Witness ==
    \E p \in Callers : Done(p) /\ Len(rows[p]) >= 2 /\ ret[p] = Some(Len(rows[p]))

\* C2: when apply_on_set was called with every predicate field unset and nobody
\* else wrote the repository, then once it has returned every artifact of the
\* repository has the target template and the count returned is the number of
\* artifacts in the repository.
C2_EmptyFilterUpdatesAll ==
    \A p \in Callers :
        (Done(p) /\ unfiltered[p] /\ ~foreign[p]) =>
            /\ \A id \in DOMAIN repo : repo[id].template = tmpl[p]
            /\ ret[p] = Some(Cardinality(DOMAIN repo))

C2_Witness ==
    \E p \in Callers :
        /\ Done(p) /\ unfiltered[p] /\ ~foreign[p]
        /\ ret[p] = Some(NumArtifacts)
        /\ \E id \in DOMAIN repo : snap[p][id].template # tmpl[p]

\* C3: every update issued is keyed by the id of the row it was built from and
\* carries the values read with the target template; and while nobody else
\* writes, the repository holds, for every artifact already updated, exactly
\* that record, every other artifact as it was at the query, and the same ids.
C3_OnlyTemplateOfMatchedChanges ==
    \A p \in Callers :
        /\ \A k \in 1..Len(issued[p]) :
              /\ issued[p][k].id = rows[p][k].id
              /\ issued[p][k].rec = Replacement(rows[p][k], p)
        /\ (pc[p] # "idle" /\ ~foreign[p]) =>
              /\ DOMAIN repo = DOMAIN snap[p]
              /\ \A id \in DOMAIN repo :
                    repo[id] = IF id \in Updated(p)
                               THEN Replacement(snap[p][id], p)
                               ELSE snap[p][id]
              /\ Updated(p) \subseteq Matched(p)
              /\ Done(p) => Updated(p) = Matched(p)

C3_Witness ==
    \E p \in Callers :
        /\ Done(p) /\ ~foreign[p]
        /\ \E id \in DOMAIN repo : id \in Matched(p) /\ repo[id] # snap[p][id]
                                     /\ repo[id].tags # {}
        /\ \E id \in DOMAIN repo : id \notin Matched(p)

\* C7: when an update fails in the middle of a bulk apply, no further update is
\* issued and the caller is told how many updates succeeded before the failure.
C7_FailureReportsCount ==
    \A p \in Callers :
        pc[p] = "failed" => ret[p] = Some(Len(issued[p]))

\* C8: after two calls with different targets have both returned, every
\* artifact matched by both holds the target of the call that issued its update
\* to that artifact last.
C8_LastWriteWins ==
    (Done("p1") /\ Done("p2") /\ tmpl["p1"] # tmpl["p2"]) =>
        \A id \in (Matched("p1") \cap Matched("p2")) \cap DOMAIN repo :
            /\ lastUpdater[id] \in Callers
            /\ repo[id].template = tmpl[lastUpdater[id]]

\* the two calls interleaved record by record: two artifacts matched by both end
\* with different targets
C8_Witness ==
    /\ Done("p1") /\ Done("p2") /\ tmpl["p1"] # tmpl["p2"]
    /\ \E a, b \in (Matched("p1") \cap Matched("p2")) \cap DOMAIN repo :
          /\ lastUpdater[a] = "p1" /\ repo[a].template = tmpl["p1"]
          /\ lastUpdater[b] = "p2" /\ repo[b].template = tmpl["p2"]

\* p's step is the update of the artifact id
UpdateStepOn(p, id) ==
    /\ pc[p] = "loop"
    /\ idx'[p] = idx[p] + 1
    /\ rows[p][idx[p] + 1].id = id
    /\ id \in DOMAIN repo

NonTemplate(a) ==
    [id |-> a.id, title |-> a.title, category |-> a.category, tags |-> a.tags,
     author |-> a.author, status |-> a.status]

\* C9 as claimed: an update of apply_on_set leaves every attribute other than
\* template as it is in the repository, so a change another writer made after
\* the snapshot is still there after the update.
C9_KeepsConcurrentChange ==
    [][\A p \in Callers : \A id \in ArtIds :
          UpdateStepOn(p, id) => NonTemplate(repo'[id]) = NonTemplate(repo[id])]_vars

\* C9 as amended: an update of apply_on_set writes every attribute other than
\* template as it was read at the snapshot (so a change made since is replaced
\* by the value read), and leaves every other artifact alone.
C9_WritesSnapshotValues ==
    [][\A p \in Callers : \A id \in ArtIds :
          UpdateStepOn(p, id) =>
              /\ NonTemplate(repo'[id]) = NonTemplate(rows[p][idx[p] + 1])
              /\ repo'[id].template = tmpl[p]
              /\ \A other \in DOMAIN repo \ {id} : repo'[other] = repo[other]]_vars

\* the other writer's title is gone: the repository holds the title read before
C9_Witness ==
    \E id \in DOMAIN repo :
        /\ ~IsNone(lastEdit[id])
        /\ repo[id].title # Val(lastEdit[id])
        /\ lastUpdater[id] \in Callers

(***************************************************************************)
(* Claims about the template store, checked under SpecStore                *)
(***************************************************************************)
\* C4: new or add under a name that exists fails with AlreadyExists and leaves
\* the store as it is, whether the name is found at the existence test or at
\* the write that follows it (two callers creating the same name).
C4_CreateExistingFails ==
    [][\A c \in StoreCallers :
          /\ \A n \in Names :
                (is_file(n) /\ (New(c, n) \/ \E x \in Contents : Add(c, n, x))) =>
                    (sres'[c].outcome = "AlreadyExists" /\ store' = store)
          /\ (is_file(sarg[c].name) /\ (NewWrite(c) \/ AddSave(c))) =>
                    (sres'[c].outcome = "AlreadyExists" /\ store' = store)]_vars

\* C5: the existence test of delete changes nothing and ends the call with -404
\* exactly when the name is absent; otherwise the call goes on to the removal,
\* which removes that name, leaves every other template as it is and returns
\* -200.
C5_DeleteSentinels ==
    [][\A c \in StoreCallers :
          /\ \A n \in Names :
                Delete(c, n) =>
                    /\ store' = store
                    /\ (n \notin DOMAIN store) <=>
                          (spc'[c] = "idle" /\ sres'[c].op = "delete"
                             /\ sres'[c].code = Some(NotFoundSentinel))
                    /\ (n \in DOMAIN store) <=> (spc'[c] = "delete_remove")
          /\ DeleteRemove(c) =>
                /\ sres'[c].op = "delete"
                /\ sres'[c].code = Some(SuccessSentinel)
                /\ DOMAIN store' = DOMAIN store \ {sarg[c].name}
                /\ \A m \in DOMAIN store' : store'[m] = store[m]]_vars

\* one delete returned -200 and left the other template in place, another
\* delete returned -404
C5_Witness ==
    /\ sres["c1"].op = "delete" /\ sres["c1"].code = Some(SuccessSentinel)
    /\ sres["c2"].op = "delete" /\ sres["c2"].code = Some(NotFoundSentinel)
    /\ Cardinality(DOMAIN store) = 1

\* C6: a get_template that reads a name after an update_template call on it,
\* with no write to the name in between, returns the base64 encoding of the
\* content of that update; an update_template on an absent name fails and
\* creates nothing.
C6_UpdateThenGet ==
    [][\A c \in StoreCallers :
          /\ (GetRead(c) /\ ~IsNone(lastUpd) /\ Val(lastUpd).name = sarg[c].name) =>
                sres'[c].data = Some(b64encode(Val(lastUpd).content))
          /\ \A n \in Names : \A x \in Contents :
                (UpdateTemplate(c, n, x) /\ ~is_file(n)) =>
                    (sres'[c].outcome # "Ok" /\ store' = store)]_vars

(***************************************************************************)
(* Claim about the tag-filter normalisation, checked under SpecTags        *)
(***************************************************************************)
\* C10: an absent or empty tags argument gives None; any other gives tokens
\* that form a set: no token twice, no empty token.
C10_TagTokensFormASet ==
    tpc = "normalized" =>
        IF IsNone(tagsArg) \/ Val(tagsArg) = << >>
        THEN IsNone(tags_list)
        ELSE /\ ~IsNone(tags_list)
             /\ LET toks == Val(tags_list)
                IN /\ \A i, j \in 1..Len(toks) : i # j => toks[i] # toks[j]
                   /\ \A i \in 1..Len(toks) : toks[i] # << >>

====
